---- MODULE Spec2Model ----
(***************************************************************************)
(* Model of the stained-glass installation's core:                         *)
(*   - src/src/scene/castleGenerator.js  (module state + generateCastle)   *)
(*   - src/src/controls/PlayerController.js (input, physics, colliders)    *)
(*                                                                         *)
(* Numbers.  Lengths and speeds are fixed-point integers in units of       *)
(* 1/10000 (U), elapsed times are in milliseconds, aspect ratios are in    *)
(* thousandths and angles in degrees.  The inputs drawn by the actions are *)
(* chosen so that every product and quotient the code computes on them is  *)
(* an exact multiple of the unit.                                          *)
(***************************************************************************)
EXTENDS Integers, Sequences, FiniteSets, TLC

U == 10 ^ 4

Min(a, b) == IF a <= b THEN a ELSE b

Range(s) == {s[i] : i \in 1..Len(s)}

RECURSIVE SeqOfSet(_)
SeqOfSet(S) ==
    IF S = {} THEN <<>>
    ELSE LET m == CHOOSE x \in S : \A y \in S : x <= y
         IN <<m>> \o SeqOfSet(S \ {m})

(***************************************************************************)
(* config.js                                                               *)
(***************************************************************************)
numTextureSets == 4

defaultCastleParams ==
    [seed |-> 42, wallHeight |-> 8000, wallThickness |-> 1000, baseRadius |-> 10000]

(***************************************************************************)
(* Bounds of the castle model                                              *)
(***************************************************************************)
MaxGenerations == 2

Scenes == {1, 2}

\* A materials argument: null, or an array whose entries are a material
\* handle (1..) or 0 for a missing (undefined / null) entry.
NullMaterials == [isNull |-> TRUE, arr |-> <<>>]
Mats(a) == [isNull |-> FALSE, arr |-> a]
MaterialArgs ==
    { NullMaterials, Mats(<<>>), Mats(<<1, 2, 3, 4>>), Mats(<<2, 1>>),
      Mats(<<3, 0, 1, 2>>) }

\* params arguments: the defaults; another seed with a lower wall on a wider
\* ring
ParamArgs ==
    { defaultCastleParams,
      [seed |-> 7, wallHeight |-> 5000, wallThickness |-> 1000, baseRadius |-> 15000] }

\* Results of loadAllTextureSets: one aspect ratio (in thousandths) per
\* configured texture set; 0 stands for a set without a usable aspectRatio.
TextureSetLists ==
    { <<1000, 2000, 500, 0>> }

(***************************************************************************)
(* State                                                                   *)
(***************************************************************************)
VARIABLES
    \* castleGenerator.js module state
    castleGroup,      \* id of the live group, 0 for null
    windowMeshes,     \* ordered list of glass meshes
    scene,            \* scene handle of the last generateCastle, 0 for null
    \* textureManager.js
    allTextureSets,
    \* scene graphs and objects the generator touches
    sceneChildren,    \* scene handle -> set of castle groups attached to it
    groupChildren,    \* children of the live group, in creation order
    geometries,       \* the geometries of the live group and of the group
                      \* it replaced: those not yet disposed, those disposed
    prevGroup,        \* id of the group replaced by the last call, 0 if none
    castleParams,     \* the exported, UI-mutated parameter object
    nextGroupId,      \* number of groups created so far
    scenesUsed,       \* scene handles passed to generateCastle so far
    lastResult,       \* return value of the last generateCastle
    rng,              \* the SeededRandom instance: its seed field, the number it
                      \* returned last and how many it has returned
    \* PlayerController.js: fields of the controller
    position,         \* [x, y, z]
    velocity,         \* the y component; x and z are never written
    onGround,
    enabled,
    keys,             \* [forward, backward, left, right]
    colliders,        \* list of [mesh, geometry], geometry a clone id
    \* the controller's surroundings
    cameraPosition,
    cameraYaw,        \* degrees about the up axis, 0 looks down -z; the
                      \* camera is turned by PointerLockControls
    pointerLockElement, \* document.pointerLockElement: "none", "canvas", "other"
    listening,        \* the document listeners of the controller are attached
    sceneObjects,     \* names of the objects of this.scene, in traversal order
    cloneCount,       \* geometry clones made so far, ids 1..cloneCount
    clonesDisposed,   \* ids of the clones that were disposed
    op,               \* the last call or event delivered to the PlayerController
    \* HandTrackingController.js: fields of the controller
    hand,             \* [isRunning, lastTimestamp, smoothedPosition, isHandDetected]
    \* the controller's surroundings
    pendingFrames,    \* requestAnimationFrame callbacks of _processFrame not yet run
    clock             \* performance.now()

playerVars ==
    <<position, velocity, onGround, enabled, keys, colliders, cameraPosition,
      cameraYaw, pointerLockElement, listening, sceneObjects, cloneCount,
      clonesDisposed, op>>

castleVars ==
    <<castleGroup, windowMeshes, scene, allTextureSets, sceneChildren,
      groupChildren, geometries, prevGroup, castleParams, nextGroupId,
      scenesUsed, lastResult, rng>>

handVars == <<hand, pendingFrames, clock>>

vars == <<castleVars, playerVars, handVars>>

(***************************************************************************)
(* HandTrackingController.js.  Positions are in units of 1/HandUnit of the *)
(* video frame, timestamps in ticks of performance.now().                  *)
(***************************************************************************)
HandUnit == 1024

\* DEFAULT_CONFIG.smoothing, in units of 1/HandUnit
smoothing == 256

\* lines 27-31: the fields the constructor sets
HandInitial ==
    [isRunning |-> FALSE, lastTimestamp |-> 0,
     smoothedPosition |-> [x |-> HandUnit \div 2, y |-> HandUnit \div 2],
     isHandDetected |-> FALSE]

HandInit ==
    /\ hand = HandInitial
    /\ pendingFrames = 0
    /\ clock = 1

\* what handLandmarker.detectForVideo does: it throws, finds no hand, or
\* returns the landmark of a hand
Detections ==
    { [kind |-> "error", x |-> 0, y |-> 0],
      [kind |-> "none", x |-> 0, y |-> 0],
      [kind |-> "hand", x |-> 0, y |-> HandUnit],
      [kind |-> "hand", x |-> HandUnit, y |-> HandUnit \div 2] }

\* lines 110-118: the flipped x and the exponential smoothing
Smoothed(pos, landmark) ==
    LET rawX == HandUnit - landmark.x
        rawY == landmark.y
    IN  [x |-> (smoothing * rawX + (HandUnit - smoothing) * pos.x) \div HandUnit,
         y |-> (smoothing * rawY + (HandUnit - smoothing) * pos.y) \div HandUnit]

\* lines 102-128: the detection of one frame; an error is caught and leaves
\* the position and the detected flag as they were
Detected(h, result) ==
    CASE result.kind = "hand" ->
            [h EXCEPT !.smoothedPosition = Smoothed(@, result),
                      !.isHandDetected = TRUE]
      [] result.kind = "none" -> [h EXCEPT !.isHandDetected = FALSE]
      [] OTHER -> h

\* line 97 and line 130: the frame asks for the next animation frame
ScheduledNext(pending) == pending + 1

\* _processFrame, called with h the fields and pending the callbacks that
\* wait; it returns both as they are when it returns
processFrame(h, pending, timestamp, result) ==
    IF ~h.isRunning THEN [hand |-> h, pending |-> pending]
    ELSE IF timestamp = h.lastTimestamp
    THEN [hand |-> h, pending |-> ScheduledNext(pending)]
    ELSE [hand    |-> Detected([h EXCEPT !.lastTimestamp = timestamp], result),
          pending |-> ScheduledNext(pending)]

\* start(): sets the flag and runs _processFrame at once
HandStart(result) ==
    LET r == processFrame([hand EXCEPT !.isRunning = TRUE], pendingFrames, clock, result)
    IN  /\ hand' = r.hand
        /\ pendingFrames' = r.pending
        /\ UNCHANGED <<clock, castleVars, playerVars>>

\* stop()
HandStop ==
    /\ hand' = [hand EXCEPT !.isRunning = FALSE]
    /\ UNCHANGED <<pendingFrames, clock, castleVars, playerVars>>

\* the browser runs one of the waiting animation-frame callbacks
AnimationFrame(result) ==
    LET r == processFrame(hand, pendingFrames - 1, clock, result)
    IN  /\ pendingFrames > 0
        /\ hand' = r.hand
        /\ pendingFrames' = r.pending
        /\ UNCHANGED <<clock, castleVars, playerVars>>

\* time passes between two reads of performance.now()
ClockTick ==
    /\ clock' = clock + 1
    /\ UNCHANGED <<hand, pendingFrames, castleVars, playerVars>>

(***************************************************************************)
(* Trigonometry on the angles the ring layout uses (multiples of 15        *)
(* degrees), in units of 1/U.                                              *)
(***************************************************************************)
CosTable ==
    [d \in {0, 15, 30, 45, 60, 75, 90} |->
        CASE d = 0  -> 10000
          [] d = 15 -> 9659
          [] d = 30 -> 8660
          [] d = 45 -> 7071
          [] d = 60 -> 5000
          [] d = 75 -> 2588
          [] d = 90 -> 0]

CosDeg(deg) ==
    LET d == deg % 360
    IN  IF d <= 90 THEN CosTable[d]
        ELSE IF d <= 180 THEN -CosTable[180 - d]
        ELSE IF d <= 270 THEN -CosTable[d - 180]
        ELSE CosTable[360 - d]

SinDegAsCos(deg) == CosDeg(deg)

SinDeg(deg) == CosDeg(deg + 270)

\* x * c / U for a table value c, rounded towards zero
Scale(c, x) == IF c >= 0 THEN (c * x) \div U ELSE -(((-c) * x) \div U)

(***************************************************************************)
(* castleGenerator.js: geometry builders                                   *)
(***************************************************************************)
GeomKey(g, kind, slot) == [g |-> g, kind |-> kind, slot |-> slot]

Child(type, slot, geoms, x, y, z, rotY, w, h) ==
    [type |-> type, slot |-> slot, geoms |-> geoms, x |-> x, y |-> y, z |-> z,
     rotY |-> rotY, width |-> w, height |-> h]

\* createPillar: a body and a decorative cap, each with its own geometry
createPillar(g, slot) ==
    { GeomKey(g, "pillarBody", slot), GeomKey(g, "pillarCap", slot) }

\* createWallWithWindow: the stone parts around one window opening
createWallWithWindow(g, slot, windowWidth, windowHeight, wallHeight, wallThickness, windowYOffset) ==
    LET margin       == 600
        bottomHeight == windowYOffset - windowHeight \div 2
        topStart     == windowYOffset + windowHeight \div 2
        topHeight    == wallHeight - topStart
        kinds == (IF bottomHeight > 100 THEN {"bottom"} ELSE {})
                 \cup (IF topHeight > 100 THEN {"top"} ELSE {})
                 \cup {"left", "right", "arch", "sill"}
    IN  [geoms |-> {GeomKey(g, k, slot) : k \in kinds},
         totalWidth |-> windowWidth + margin * 2]

\* generateCastle, lines 157-177: window size from the texture aspect ratio
WindowDimensionUncapped(aspectRatio) ==
    LET textureAspect == IF aspectRatio = 0 THEN 1000 ELSE aspectRatio
        baseSize == 4000
    IN  IF textureAspect >= 1000
        THEN LET width == (baseSize * textureAspect) \div 1000
             IN  [width |-> width, height |-> (width * 1000) \div textureAspect]
        ELSE LET height == (baseSize * 1000) \div textureAspect
             IN  [width |-> (height * textureAspect) \div 1000, height |-> height]

WindowDimensionSquare(aspectRatio) == [width |-> 4000, height |-> 4000]

WindowDimension(aspectRatio) ==
    LET textureAspect == IF aspectRatio = 0 THEN 1000 ELSE aspectRatio
        baseSize == 4000
    IN  IF textureAspect >= 1000
        THEN LET width == Min((baseSize * textureAspect) \div 1000, 7000)
             IN  [width |-> width, height |-> (width * 1000) \div textureAspect]
        ELSE LET height == Min((baseSize * 1000) \div textureAspect, 8000)
             IN  [width |-> (height * textureAspect) \div 1000, height |-> height]

HasMaterialIgnoringHoles(materials, i) ==
    /\ ~materials.isNull
    /\ i + 1 <= Len(materials.arr)

HasMaterial(materials, i) ==
    /\ ~materials.isNull
    /\ i + 1 <= Len(materials.arr)
    /\ materials.arr[i + 1] # 0

\* generateCastle, lines 150-315: the children of the new group, in creation
\* order, and the glass meshes pushed to windowMeshes
RECURSIVE WallRing(_, _, _, _, _)
WallRing(g, i, numWindows, materials, params) ==
    IF i >= numWindows THEN <<>>
    ELSE
    LET radius        == (params.baseRadius * 12) \div 10
        wallHeight    == (params.wallHeight * 15) \div 10
        wallThickness == (params.wallThickness * 12) \div 10
        angle         == (i * 360) \div numWindows
        nextAngle     == ((i + 1) * 360) \div numWindows
        dim           == WindowDimension(allTextureSets[i + 1])
        windowYOffset == wallHeight \div 2
        wall          == createWallWithWindow(g, i, dim.width, dim.height,
                             wallHeight, wallThickness, windowYOffset)
        wallX         == Scale(CosDeg(angle), radius)
        wallZ         == Scale(SinDeg(angle), radius)
        glassOffset   == wallThickness \div 2 + 10
        pillarAngle   == (angle + nextAngle) \div 2
        pillarRadius  == radius + wallThickness \div 2
        wallChild  == Child("wall", i, wall.geoms, wallX, 0, wallZ,
                            90 - angle, wall.totalWidth, wallHeight)
        glassChild == Child("glass", i, {GeomKey(g, "glass", i)},
                            wallX + Scale(CosDeg(angle), glassOffset),
                            windowYOffset,
                            wallZ + Scale(SinDeg(angle), glassOffset),
                            90 - angle, dim.width, dim.height)
        pillarChild == Child("pillar", i, createPillar(g, i),
                            Scale(CosDeg(pillarAngle), pillarRadius), 0,
                            Scale(SinDeg(pillarAngle), pillarRadius),
                            0, 0, (wallHeight * 11) \div 10)
    IN  <<wallChild>>
        \o (IF HasMaterial(materials, i) THEN <<glassChild>> ELSE <<>>)
        \o <<pillarChild>>
        \o WallRing(g, i + 1, numWindows, materials, params)

HasSkylight(materials) == ~materials.isNull /\ Len(materials.arr) > 0

BuildChildrenNeedsRing(g, numWindows, materials, params) ==
    LET radius     == (params.baseRadius * 12) \div 10
        wallHeight == (params.wallHeight * 15) \div 10
        frameY     == (wallHeight * 8) \div 10
        halfSize   == 3100
        wallThickness == (params.wallThickness * 12) \div 10
        base  == Child("base", -1, {GeomKey(g, "base", -1)}, 0, -500, 0, 0,
                       2 * (radius + wallThickness), 1000)
        floor == Child("floor", -1, {GeomKey(g, "floor", -1)}, 0, 100, 0, 0,
                       2 * (radius - 1000), 0)
        sky   == Child("skylight", -1, {GeomKey(g, "skylight", -1)},
                       0, frameY, 0, 0, 6000, 6000)
        frame(n, k, x, z) == Child("frame", n, {GeomKey(g, k, -1)}, x, frameY, z, 0, 0, 0)
    IN  WallRing(g, 0, numWindows, materials, params)
        \o (IF numWindows > 0 THEN <<base, floor>> ELSE <<>>)
        \o (IF HasSkylight(materials)
            THEN << sky,
                    frame(1, "frameGeometry", 0, halfSize),
                    frame(2, "frameGeometry", 0, -halfSize),
                    frame(3, "frameGeometry2", halfSize, 0),
                    frame(4, "frameGeometry2", -halfSize, 0) >>
            ELSE <<>>)

BuildChildrenSeeded(g, numWindows, materials, params) ==
    LET jittered   == [params EXCEPT !.baseRadius = @ + params.seed]
        radius     == (jittered.baseRadius * 12) \div 10
        wallHeight == (params.wallHeight * 15) \div 10
        frameY     == (wallHeight * 8) \div 10
        halfSize   == 3100
        wallThickness == (params.wallThickness * 12) \div 10
        base  == Child("base", -1, {GeomKey(g, "base", -1)}, 0, -500, 0, 0,
                       2 * (radius + wallThickness), 1000)
        floor == Child("floor", -1, {GeomKey(g, "floor", -1)}, 0, 100, 0, 0,
                       2 * (radius - 1000), 0)
        sky   == Child("skylight", -1, {GeomKey(g, "skylight", -1)},
                       0, frameY, 0, 0, 6000, 6000)
        frame(n, k, x, z) == Child("frame", n, {GeomKey(g, k, -1)}, x, frameY, z, 0, 0, 0)
    IN  WallRing(g, 0, numWindows, materials, jittered)
        \o <<base, floor>>
        \o (IF HasSkylight(materials)
            THEN << sky,
                    frame(1, "frameGeometry", 0, halfSize),
                    frame(2, "frameGeometry", 0, -halfSize),
                    frame(3, "frameGeometry2", halfSize, 0),
                    frame(4, "frameGeometry2", -halfSize, 0) >>
            ELSE <<>>)

BuildChildren(g, numWindows, materials, params) ==
    LET radius     == (params.baseRadius * 12) \div 10
        wallHeight == (params.wallHeight * 15) \div 10
        frameY     == (wallHeight * 8) \div 10
        halfSize   == 3100
        wallThickness == (params.wallThickness * 12) \div 10
        base  == Child("base", -1, {GeomKey(g, "base", -1)}, 0, -500, 0, 0,
                       2 * (radius + wallThickness), 1000)
        floor == Child("floor", -1, {GeomKey(g, "floor", -1)}, 0, 100, 0, 0,
                       2 * (radius - 1000), 0)
        sky   == Child("skylight", -1, {GeomKey(g, "skylight", -1)},
                       0, frameY, 0, 0, 6000, 6000)
        frame(n, k, x, z) == Child("frame", n, {GeomKey(g, k, -1)}, x, frameY, z, 0, 0, 0)
    IN  WallRing(g, 0, numWindows, materials, params)
        \o <<base, floor>>
        \o (IF HasSkylight(materials)
            THEN << sky,
                    frame(1, "frameGeometry", 0, halfSize),
                    frame(2, "frameGeometry", 0, -halfSize),
                    frame(3, "frameGeometry2", halfSize, 0),
                    frame(4, "frameGeometry2", -halfSize, 0) >>
            ELSE <<>>)

WindowMesh(g, slot, material) ==
    [geometry |-> GeomKey(g, IF slot = -1 THEN "skylight" ELSE "glass", slot),
     material |-> material, group |-> g, slot |-> slot]

BuildWindowMeshesSkylightFirst(g, numWindows, materials) ==
    LET slots == {i \in 0..(numWindows - 1) : HasMaterial(materials, i)}
        order == SeqOfSet(slots)
    IN  (IF HasSkylight(materials)
         THEN <<WindowMesh(g, -1, materials.arr[1])>>
         ELSE <<>>)
        \o [k \in 1..Len(order) |-> WindowMesh(g, order[k], materials.arr[order[k] + 1])]

BuildWindowMeshes(g, numWindows, materials) ==
    LET slots == {i \in 0..(numWindows - 1) : HasMaterial(materials, i)}
        order == SeqOfSet(slots)
    IN  [k \in 1..Len(order) |-> WindowMesh(g, order[k], materials.arr[order[k] + 1])]
        \o (IF HasSkylight(materials)
            THEN <<WindowMesh(g, -1, materials.arr[1])>>
            ELSE <<>>)

GeomsOf(children) == UNION {children[k].geoms : k \in 1..Len(children)}

(***************************************************************************)
(* castleGenerator.js / textureManager.js: operations                      *)
(***************************************************************************)
\* class SeededRandom, lines 11-28.  value is the numerator of the number the
\* last next() returned, over the denominator Modulus - 1.
Modulus == 2147483647
Multiplier == 16807
DefaultSeed == 12345

SeededRandom(seed) == [seed |-> seed, value |-> 0, draws |-> 0]

\* (seed * 16807) % 2147483647 for 0 <= seed <= Modulus.  The product is
\* exact in the doubles of the code; here it is taken in two parts that stay
\* within 32 bits: with Modulus = 127773 * 16807 + 2836 the difference below
\* is congruent to the product and lies strictly between -Modulus and Modulus.
MulMod(seed) ==
    LET q == Modulus \div Multiplier
        r == Modulus % Multiplier
        t == Multiplier * (seed % q) - r * (seed \div q)
    IN  IF t < 0 THEN t + Modulus ELSE t

\* next(): advances the seed field and returns (seed - 1) / 2147483646
SeededRandomNext(generator) ==
    [seed  |-> MulMod(generator.seed),
     value |-> MulMod(generator.seed) - 1,
     draws |-> generator.draws + 1]

next ==
    /\ rng' = SeededRandomNext(rng)
    /\ UNCHANGED <<playerVars, handVars, castleGroup, windowMeshes, scene, allTextureSets,
                   sceneChildren, groupChildren, geometries, prevGroup, castleParams,
                   nextGroupId, scenesUsed, lastResult>>

\* The returned object; its windowMeshes field is the module's live list
\* itself, so it is read from windowMeshes and not copied here.
NoResult == [group |-> 0, windowCount |-> 0]

CastleInit ==
    /\ castleGroup = 0
    /\ windowMeshes = <<>>
    /\ scene = 0
    /\ allTextureSets = <<>>
    /\ sceneChildren = [s \in Scenes |-> {}]
    /\ groupChildren = <<>>
    /\ geometries = [live |-> {}, disposed |-> {}]
    /\ prevGroup = 0
    /\ castleParams = defaultCastleParams
    /\ nextGroupId = 0
    /\ scenesUsed = {}
    /\ lastResult = NoResult
    /\ rng = SeededRandom(DefaultSeed)
    /\ HandInit

\* loadAllTextureSets: the list is replaced as a whole when every load is done
LoadAllTextureSets(sets) ==
    /\ allTextureSets' = sets
    /\ UNCHANGED <<playerVars, handVars, rng, castleGroup, windowMeshes, scene, sceneChildren, groupChildren,
                   geometries, prevGroup, castleParams, nextGroupId, scenesUsed,
                   lastResult>>

\* line 143, scene.remove(castleGroup): detaches the group from the scene the
\* call was given; a group that is not a child of that scene stays where it is
RemoveFromSceneSkipped(children, sceneRef, group) == children

RemoveFromScene(children, sceneRef, group) ==
    [children EXCEPT ![sceneRef] = @ \ {group}]

\* the module state and the scene graphs a generation reads and writes
CastleState ==
    [scene |-> scene, castleGroup |-> castleGroup, rng |-> rng,
     nextGroupId |-> nextGroupId, prevGroup |-> prevGroup,
     windowMeshes |-> windowMeshes, groupChildren |-> groupChildren,
     geometries |-> geometries, sceneChildren |-> sceneChildren,
     scenesUsed |-> scenesUsed, lastResult |-> lastResult]

\* lines 141-148: the clean-up of the existing castle disposes the geometries
\* of the meshes in windowMeshes
CleanupDisposed(st) ==
    IF st.castleGroup # 0
    THEN {st.windowMeshes[k].geometry : k \in 1..Len(st.windowMeshes)}
    ELSE {}

\* lines 141-148: the clean-up replaces the list by an empty one when a
\* castle exists; the glass meshes and the skylight are then pushed onto it
CleanedWindowMeshesKept(st) == st.windowMeshes

CleanedWindowMeshes(st) == IF st.castleGroup # 0 THEN <<>> ELSE st.windowMeshes

\* lines 138-324: what a call that starts in `st` leaves in each field of
\* the module state and of the scene graphs
GeneratedDrifting(st, sceneRef, materials, params, field) ==
    LET g          == st.nextGroupId + 1
        numWindows == Min(numTextureSets, Len(allTextureSets))
        removed    == IF st.castleGroup # 0
                      THEN RemoveFromScene(st.sceneChildren, sceneRef, st.castleGroup)
                      ELSE st.sceneChildren
        children   == BuildChildren(g, numWindows, materials,
                         [params EXCEPT !.baseRadius = @ + 1000 * st.nextGroupId])
        meshes     == BuildWindowMeshes(g, numWindows, materials)
        oldLive    == {k \in st.geometries.live : k.g = st.castleGroup}
        oldDisp    == {k \in st.geometries.disposed : k.g = st.castleGroup}
    IN  CASE field = "scene"         -> sceneRef
          [] field = "castleGroup"   -> g
          [] field = "rng"           -> SeededRandom(params.seed)
          [] field = "nextGroupId"   -> g
          [] field = "prevGroup"     -> st.castleGroup
          [] field = "windowMeshes"  -> CleanedWindowMeshes(st) \o meshes
          [] field = "groupChildren" -> children
          [] field = "geometries"    ->
                [live     |-> GeomsOf(children) \cup (oldLive \ CleanupDisposed(st)),
                 disposed |-> oldDisp \cup (oldLive \cap CleanupDisposed(st))]
          [] field = "sceneChildren" -> [removed EXCEPT ![sceneRef] = @ \cup {g}]
          [] field = "scenesUsed"    -> st.scenesUsed \cup {sceneRef}
          [] field = "lastResult"    -> [group |-> g, windowCount |-> numWindows]

Generated(st, sceneRef, materials, params, field) ==
    LET g          == st.nextGroupId + 1
        numWindows == Min(numTextureSets, Len(allTextureSets))
        removed    == IF st.castleGroup # 0
                      THEN RemoveFromScene(st.sceneChildren, sceneRef, st.castleGroup)
                      ELSE st.sceneChildren
        children   == BuildChildren(g, numWindows, materials, params)
        meshes     == BuildWindowMeshes(g, numWindows, materials)
        oldLive    == {k \in st.geometries.live : k.g = st.castleGroup}
        oldDisp    == {k \in st.geometries.disposed : k.g = st.castleGroup}
    IN  CASE field = "scene"         -> sceneRef
          [] field = "castleGroup"   -> g
          [] field = "rng"           -> SeededRandom(params.seed)
          [] field = "nextGroupId"   -> g
          [] field = "prevGroup"     -> st.castleGroup
          [] field = "windowMeshes"  -> CleanedWindowMeshes(st) \o meshes
          [] field = "groupChildren" -> children
          [] field = "geometries"    ->
                [live     |-> GeomsOf(children) \cup (oldLive \ CleanupDisposed(st)),
                 disposed |-> oldDisp \cup (oldLive \cap CleanupDisposed(st))]
          [] field = "sceneChildren" -> [removed EXCEPT ![sceneRef] = @ \cup {g}]
          [] field = "scenesUsed"    -> st.scenesUsed \cup {sceneRef}
          [] field = "lastResult"    -> [group |-> g, windowCount |-> numWindows]

\* the state a call leaves behind when it starts in `st`
Generation(st, sceneRef, materials, params) ==
    [field \in DOMAIN CastleState |->
        Generated(st, sceneRef, materials, params, field)]

\* the module state and the scene graphs become what `st` holds; nothing
\* else changes
Becomes(st) ==
    /\ scene' = st.scene
    /\ castleGroup' = st.castleGroup
    /\ rng' = st.rng
    /\ nextGroupId' = st.nextGroupId
    /\ prevGroup' = st.prevGroup
    /\ windowMeshes' = st.windowMeshes
    /\ groupChildren' = st.groupChildren
    /\ geometries' = st.geometries
    /\ sceneChildren' = st.sceneChildren
    /\ scenesUsed' = st.scenesUsed
    /\ lastResult' = st.lastResult
    /\ UNCHANGED <<allTextureSets, playerVars, handVars>>

\* lines 138-324: what a call does to the module state and the scene graphs
GeneratedCastle(sceneRef, materials, params) ==
    /\ nextGroupId < MaxGenerations
    /\ scene' = Generated(CastleState, sceneRef, materials, params, "scene")
    /\ castleGroup' = Generated(CastleState, sceneRef, materials, params, "castleGroup")
    /\ rng' = Generated(CastleState, sceneRef, materials, params, "rng")
    /\ nextGroupId' = Generated(CastleState, sceneRef, materials, params, "nextGroupId")
    /\ prevGroup' = Generated(CastleState, sceneRef, materials, params, "prevGroup")
    /\ windowMeshes' = Generated(CastleState, sceneRef, materials, params, "windowMeshes")
    /\ groupChildren' = Generated(CastleState, sceneRef, materials, params, "groupChildren")
    /\ geometries' = Generated(CastleState, sceneRef, materials, params, "geometries")
    /\ sceneChildren' = Generated(CastleState, sceneRef, materials, params, "sceneChildren")
    /\ scenesUsed' = Generated(CastleState, sceneRef, materials, params, "scenesUsed")
    /\ lastResult' = Generated(CastleState, sceneRef, materials, params, "lastResult")
    /\ UNCHANGED <<allTextureSets, playerVars, handVars>>

\* generateCastle: the call writes no field of castleParams
generateCastle(sceneRef, materials, params) ==
    /\ UNCHANGED castleParams
    /\ GeneratedCastle(sceneRef, materials, params)

regenerateCastle(materials) ==
    IF scene # 0
    THEN generateCastle(scene, materials, castleParams)
    ELSE /\ lastResult' = NoResult
         /\ UNCHANGED <<playerVars, handVars, rng, castleGroup, windowMeshes, scene, allTextureSets,
                        sceneChildren, groupChildren, geometries, prevGroup,
                        castleParams, nextGroupId, scenesUsed>>

\* castlePane.js, lines 25-32 and 88-95: what the seed and the wall height
\* controls can write
ControlWrites ==
    { [field |-> "seed", value |-> 7],
      [field |-> "wallHeight", value |-> 5000],
      [field |-> "wallHeight", value |-> 8000] }

\* glassMaterialFactory.js, getWindowMaterials(): the module's list, which
\* is empty before createAllWindowMaterials and after disposeWindowMaterials
\* and otherwise holds one material for each loaded texture set
PaneMaterials == { Mats(<<>>), Mats(<<1, 2, 3, 4>>) }

\* castlePane.js, lines 12-18 and the change handlers: a control writes one
\* field of castleParams and triggerRegenerate runs in the same step.  With
\* a callback registered the callback runs instead of the generator; without
\* one, regenerateCastle is called with the materials getWindowMaterials
\* returns.
SetCastleParams(write, materials, registered) ==
    /\ castleParams[write.field] # write.value
    /\ castleParams' = [castleParams EXCEPT ![write.field] = write.value]
    /\ IF ~registered /\ scene # 0
       THEN GeneratedCastle(scene, materials, castleParams')
       ELSE UNCHANGED <<playerVars, handVars, rng, castleGroup, windowMeshes, scene,
                        allTextureSets, sceneChildren, groupChildren, geometries,
                        prevGroup, nextGroupId, scenesUsed, lastResult>>

\* castlePane.js, line 38: seeds the Randomize button can draw, one of them
\* the seed the pane starts with
RandomizedSeeds == {7, DefaultSeed}

\* castlePane.js, lines 35-41: a click on Randomize writes a drawn seed,
\* refreshes the pane and calls triggerRegenerate.  The refresh re-reads the
\* bound fields and emits a change for the seed control when the drawn seed
\* differs from the one the control shows, so its handler runs
\* triggerRegenerate a first time; each run calls getWindowMaterials, which
\* returns the same list to both.
Randomize(seed, materials, registered) ==
    /\ castleParams' = [castleParams EXCEPT !.seed = seed]
    /\ IF ~registered /\ scene # 0
       THEN /\ nextGroupId < MaxGenerations
            /\ \E refreshed \in
                     {IF castleParams.seed # seed
                      THEN Generation(CastleState, scene, materials, castleParams')
                      ELSE CastleState} :
                  \E after \in {Generation(refreshed, refreshed.scene, materials,
                                           castleParams')} :
                     Becomes(after)
       ELSE UNCHANGED <<playerVars, handVars, rng, castleGroup, windowMeshes, scene,
                        allTextureSets, sceneChildren, groupChildren, geometries,
                        prevGroup, nextGroupId, scenesUsed, lastResult>>

\* updateWindowMaterials: a null argument throws on the first mesh, before it
\* has changed anything
updateWindowMaterials(materials) ==
    /\ windowMeshes' =
          IF materials.isNull THEN windowMeshes
          ELSE [k \in 1..Len(windowMeshes) |->
                   IF k <= Len(materials.arr) /\ materials.arr[k] # 0
                   THEN [windowMeshes[k] EXCEPT !.material = materials.arr[k]]
                   ELSE windowMeshes[k]]
    /\ UNCHANGED <<playerVars, handVars, rng, castleGroup, scene, allTextureSets, sceneChildren, groupChildren,
                   geometries, prevGroup, castleParams, nextGroupId, scenesUsed,
                   lastResult>>

CastleNext ==
    \/ \E sets \in TextureSetLists : LoadAllTextureSets(sets)
    \/ \E s \in Scenes, m \in MaterialArgs, params \in ParamArgs :
          generateCastle(s, m, params)
    \/ \E m \in MaterialArgs : regenerateCastle(m)
    \/ \E m \in MaterialArgs : updateWindowMaterials(m)


(***************************************************************************)
(* PlayerController.js: settings (constructor, lines 12-17, 48-55)         *)
(***************************************************************************)
playerHeight == 8000
playerRadius == 1500
moveSpeed    == 20000
gravity      == 98000
jumpSpeed    == 40000
\* the capsule segment runs from the position to this far above it
SegmentEndY  == playerHeight - playerRadius * 2
\* line 268: the margin of the ground check; line 193: the size filter
GroundMargin == 100
MinColliderSize == 500
StartZ == 20000

(***************************************************************************)
(* The objects a scene can hold.  A triangle of a mesh is a plane that     *)
(* reaches beyond the room the player moves in: "floor" is horizontal at   *)
(* height `at`, "wall" is vertical at x = `at`.  size is the length of the *)
(* diagonal of Box3.setFromObject(object).                                 *)
(***************************************************************************)
Opaque      == [present |-> TRUE,  transparent |-> FALSE, transmission |-> 0]
Glass       == [present |-> TRUE,  transparent |-> TRUE,  transmission |-> 0]
Transmit    == [present |-> TRUE,  transparent |-> FALSE, transmission |-> 1000]
NoMaterial  == [present |-> FALSE, transparent |-> FALSE, transmission |-> 0]

Floor(h) == [kind |-> "floor", at |-> h]
Wall(x)  == [kind |-> "wall", at |-> x]

Object(isMesh, hasGeometry, material, size, bvhOk, tris) ==
    [isMesh |-> isMesh, geometry |-> hasGeometry, material |-> material,
     size |-> size, bvhOk |-> bvhOk, tris |-> tris]

ObjectNames ==
    { "ground", "ledge", "beam", "wall", "stair", "pane", "skylight", "pebble",
      "grain", "broken", "group", "points", "bare", "unlit" }

Objects ==
    [ n \in ObjectNames |->
        CASE n = "ground"   -> Object(TRUE, TRUE, Opaque, 40000, TRUE, <<Floor(0)>>)
          [] n = "ledge"    -> Object(TRUE, TRUE, Opaque, 20000, TRUE, <<Floor(7000)>>)
          [] n = "beam"     -> Object(TRUE, TRUE, Opaque, 20000, TRUE, <<Floor(14000)>>)
          [] n = "wall"     -> Object(TRUE, TRUE, Opaque, 30000, TRUE, <<Wall(3000)>>)
          [] n = "stair"    -> Object(TRUE, TRUE, Opaque, 30000, TRUE,
                                      <<Wall(3000), Floor(7000)>>)
          [] n = "pane"     -> Object(TRUE, TRUE, Glass, 8000, TRUE, <<Wall(-3000)>>)
          [] n = "skylight" -> Object(TRUE, TRUE, Transmit, 8400, TRUE, <<Floor(9600)>>)
          [] n = "pebble"   -> Object(TRUE, TRUE, Opaque, 300, TRUE, <<>>)
          [] n = "grain"    -> Object(TRUE, TRUE, Opaque, 500, TRUE, <<>>)
          [] n = "broken"   -> Object(TRUE, TRUE, Opaque, 9000, FALSE, <<>>)
          [] n = "group"    -> Object(FALSE, FALSE, NoMaterial, 30000, TRUE, <<>>)
          [] n = "points"   -> Object(FALSE, TRUE, Opaque, 9000, TRUE, <<>>)
          [] n = "bare"     -> Object(TRUE, FALSE, Opaque, 0, TRUE, <<>>)
          [] n = "unlit"    -> Object(TRUE, TRUE, NoMaterial, 9000, TRUE, <<Floor(0)>>) ]

(***************************************************************************)
(* PlayerController.js: constructor                                        *)
(***************************************************************************)
NoKeys == [forward |-> FALSE, backward |-> FALSE, left |-> FALSE, right |-> FALSE]

PlayerInit ==
    /\ position = [x |-> 0, y |-> playerHeight, z |-> StartZ]
    /\ velocity = 0
    /\ onGround = FALSE
    /\ enabled = FALSE
    /\ keys = NoKeys
    /\ colliders = <<>>
    /\ cameraPosition = [x |-> 0, y |-> playerHeight, z |-> StartZ]
    /\ cameraYaw = 0
    /\ pointerLockElement = "none"
    /\ listening = TRUE
    /\ sceneObjects = <<>>
    /\ cloneCount = 0
    /\ clonesDisposed = {}
    /\ op = "constructor"

(***************************************************************************)
(* PlayerController.js: input handlers                                     *)
(***************************************************************************)
KeyCodes ==
    { "KeyW", "ArrowUp", "KeyS", "ArrowDown", "KeyA", "ArrowLeft", "KeyD",
      "ArrowRight", "Space" }

\* setupEventListeners(): attaches the keydown, keyup and pointerlockchange
\* listeners to the document; a listener that is already attached is not
\* attached a second time
setupEventListeners ==
    /\ op' = "setupEventListeners"
    /\ listening' = TRUE
    /\ UNCHANGED <<position, velocity, onGround, enabled, keys, colliders,
                   cameraPosition, cameraYaw, pointerLockElement, sceneObjects,
                   cloneCount, clonesDisposed, castleVars, handVars>>

\* the switch of onKeyDown / onKeyUp: the flag a key code drives
KeyFlag(code) ==
    CASE code \in {"KeyW", "ArrowUp"}    -> "forward"
      [] code \in {"KeyS", "ArrowDown"}  -> "backward"
      [] code \in {"KeyA", "ArrowLeft"}  -> "left"
      [] code \in {"KeyD", "ArrowRight"} -> "right"
      [] OTHER -> "none"

SetKey(k, flag, value) ==
    IF flag = "none" THEN k ELSE [k EXCEPT ![flag] = value]

\* a jump is taken when the controller is enabled and on the ground
CanJumpAirborne == enabled

CanJump == enabled /\ onGround

onKeyDown(code) ==
    /\ op' = "keydown"
    /\ IF ~listening \/ ~enabled
       THEN UNCHANGED <<keys, velocity, onGround>>
       ELSE IF code = "Space"
            THEN /\ velocity' = IF CanJump THEN jumpSpeed ELSE velocity
                 /\ onGround' = IF CanJump THEN FALSE ELSE onGround
                 /\ UNCHANGED keys
            ELSE /\ keys' = SetKey(keys, KeyFlag(code), TRUE)
                 /\ UNCHANGED <<velocity, onGround>>
    /\ UNCHANGED <<position, enabled, colliders, cameraPosition, cameraYaw,
                   pointerLockElement, listening, sceneObjects, cloneCount,
                   clonesDisposed, castleVars, handVars>>

onKeyUp(code) ==
    /\ op' = "keyup"
    /\ keys' = IF ~listening \/ code = "Space" THEN keys
               ELSE SetKey(keys, KeyFlag(code), FALSE)
    /\ UNCHANGED <<position, velocity, onGround, enabled, colliders, cameraPosition,
                   cameraYaw, pointerLockElement, listening, sceneObjects,
                   cloneCount, clonesDisposed, castleVars, handVars>>

\* A pointerlockchange event of the document, with the element that holds
\* the lock when it is delivered (the same as before, or another);
\* onPointerLockChange runs when the listener is still attached.
PointerLockChange(element) ==
    /\ pointerLockElement' = element
    /\ op' = "pointerlockchange"
    /\ IF listening
       THEN enabled' = (element = "canvas")
       ELSE UNCHANGED enabled
    /\ UNCHANGED <<position, velocity, onGround, keys, colliders, cameraPosition,
                   cameraYaw, listening, sceneObjects, cloneCount, clonesDisposed,
                   castleVars, handVars>>

\* lock(): only asks the browser for the pointer lock; the grant arrives
\* later as a pointerlockchange
lock ==
    /\ op' = "lock"
    /\ UNCHANGED <<position, velocity, onGround, enabled, keys, colliders,
                   cameraPosition, cameraYaw, pointerLockElement, listening,
                   sceneObjects, cloneCount, clonesDisposed, castleVars, handVars>>

\* unlock(): asks the browser to exit the lock (the release arrives later as
\* a pointerlockchange), disables at once and resets the movement keys
unlock ==
    /\ op' = "unlock"
    /\ enabled' = FALSE
    /\ keys' = NoKeys
    /\ UNCHANGED <<position, velocity, onGround, colliders, cameraPosition,
                   cameraYaw, pointerLockElement, listening, sceneObjects,
                   cloneCount, clonesDisposed, castleVars, handVars>>

(***************************************************************************)
(* PlayerController.js: colliders                                          *)
(***************************************************************************)
Collider(mesh, geometry) == [mesh |-> mesh, geometry |-> geometry]

\* lines 185-193: the filters of buildCollisionFromScene
IsGlass(o) == o.material.present /\ (o.material.transparent \/ o.material.transmission # 0)

IsTiny(o) == o.size < MinColliderSize

EligibleIgnoringMaterial(o) == o.isMesh /\ o.geometry /\ ~IsTiny(o)

Eligible(o) == o.isMesh /\ o.geometry /\ ~IsGlass(o) /\ ~IsTiny(o)

\* line 179: the list the traversal starts from
ClearedColliders(old) == <<>>

\* lines 201-211: the try / catch around the BVH build.  A failure is caught
\* inside the callback of one object, so the traversal goes on with the next
\* object; an uncaught failure would end the traversal.
AfterBvhFailureAborts(objs, i) == Len(objs) + 1

AfterBvhFailure(objs, i) == i + 1

\* lines 182-212: the traversal.  acc is [list, clones]: the colliders pushed
\* so far and the number of geometry clones made so far.
RECURSIVE Traverse(_, _, _)
Traverse(objs, i, acc) ==
    IF i > Len(objs) THEN acc
    ELSE LET o == Objects[objs[i]]
         IN  IF ~Eligible(o) THEN Traverse(objs, i + 1, acc)
             ELSE IF o.bvhOk
             THEN Traverse(objs, i + 1,
                     [list   |-> Append(acc.list, Collider(objs[i], acc.clones + 1)),
                      clones |-> acc.clones + 1])
             ELSE Traverse(objs, AfterBvhFailure(objs, i),
                           [acc EXCEPT !.clones = @ + 1])

\* addCollider(mesh): no filter but the geometry check; a failing BVH build
\* throws out of the call after the clone was made
addCollider(mesh) ==
    LET o == Objects[mesh]
    IN  /\ op' = "addCollider"
        /\ IF ~o.geometry
           THEN UNCHANGED <<colliders, cloneCount>>
           ELSE /\ cloneCount' = cloneCount + 1
                /\ colliders' = IF o.bvhOk
                                THEN Append(colliders, Collider(mesh, cloneCount + 1))
                                ELSE colliders
        /\ UNCHANGED <<position, velocity, onGround, enabled, keys, cameraPosition,
                       cameraYaw, pointerLockElement, listening, sceneObjects,
                       clonesDisposed, castleVars, handVars>>

buildCollisionFromScene ==
    LET built == Traverse(sceneObjects, 1,
                          [list |-> ClearedColliders(colliders), clones |-> cloneCount])
    IN  /\ op' = "buildCollisionFromScene"
        /\ colliders' = built.list
        /\ cloneCount' = built.clones
        /\ UNCHANGED <<position, velocity, onGround, enabled, keys, cameraPosition,
                       cameraYaw, pointerLockElement, listening, sceneObjects,
                       clonesDisposed, castleVars, handVars>>

\* dispose(): detaches the listeners, disposes the geometry of every collider
\* in the list and empties the list
disposeKeepingColliders ==
    /\ op' = "dispose"
    /\ listening' = FALSE
    /\ clonesDisposed' = clonesDisposed \cup {colliders[k].geometry : k \in 1..Len(colliders)}
    /\ UNCHANGED <<position, velocity, onGround, enabled, keys, colliders, cameraPosition,
                   cameraYaw, pointerLockElement, sceneObjects, cloneCount,
                   castleVars, handVars>>

dispose ==
    /\ op' = "dispose"
    /\ listening' = FALSE
    /\ clonesDisposed' = clonesDisposed \cup {colliders[k].geometry : k \in 1..Len(colliders)}
    /\ colliders' = <<>>
    /\ UNCHANGED <<position, velocity, onGround, enabled, keys, cameraPosition,
                   cameraYaw, pointerLockElement, sceneObjects, cloneCount,
                   castleVars, handVars>>

\* the caller adds an object to, or removes it from, the controller's scene
SceneAdd(name) ==
    /\ name \notin Range(sceneObjects)
    /\ sceneObjects' = Append(sceneObjects, name)
    /\ op' = "scene"
    /\ UNCHANGED <<position, velocity, onGround, enabled, keys, colliders,
                   cameraPosition, cameraYaw, pointerLockElement, listening,
                   cloneCount, clonesDisposed, castleVars, handVars>>

SceneRemove(name) ==
    /\ name \in Range(sceneObjects)
    /\ sceneObjects' = SelectSeq(sceneObjects, LAMBDA n : n # name)
    /\ op' = "scene"
    /\ UNCHANGED <<position, velocity, onGround, enabled, keys, colliders,
                   cameraPosition, cameraYaw, pointerLockElement, listening,
                   cloneCount, clonesDisposed, castleVars, handVars>>

(***************************************************************************)
(* PlayerController.js: checkCollisions                                    *)
(***************************************************************************)
Max(a, b) == IF a >= b THEN a ELSE b

Abs(a) == IF a >= 0 THEN a ELSE -a

\* Box3.distanceToPoint for the bounds of a BVH root over planes of the two
\* kinds above: the box spans every axis it has a plane across
BoxDistance(tris, p) ==
    LET floors == {tris[k].at : k \in {j \in 1..Len(tris) : tris[j].kind = "floor"}}
        walls  == {tris[k].at : k \in {j \in 1..Len(tris) : tris[j].kind = "wall"}}
        lo(S)  == CHOOSE a \in S : \A b \in S : a <= b
        hi(S)  == CHOOSE a \in S : \A b \in S : a >= b
    IN  IF floors # {} /\ walls # {} THEN 0
        ELSE IF floors # {} THEN Max(Max(lo(floors) - p.y, p.y - hi(floors)), 0)
        ELSE Max(Max(lo(walls) - p.x, p.x - hi(walls)), 0)

\* lines 233-236: either end of the segment is within the radius of the box
intersectsBounds(tris, start) ==
    \/ BoxDistance(tris, start) < playerRadius
    \/ BoxDistance(tris, [start EXCEPT !.y = @ + SegmentEndY]) < playerRadius

\* Triangle.closestPointToSegment followed by distanceTo, for the vertical
\* capsule segment that starts at `start`: the planes reach beyond the room,
\* so the closest pair is an end of the segment and its projection on the
\* plane; the start end is tried first and the other end replaces it only
\* when it is strictly closer
NearestEndY(tri, start) ==
    IF Abs(start.y + SegmentEndY - tri.at) < Abs(start.y - tri.at)
    THEN start.y + SegmentEndY
    ELSE start.y

TriDistance(tri, start) ==
    IF tri.kind = "floor"
    THEN Abs(NearestEndY(tri, start) - tri.at)
    ELSE Abs(start.x - tri.at)

\* lines 246-255: the push along the direction from the point on the triangle
\* to the point on the segment, by the depth; a distance of 0 normalises to
\* the zero vector and moves nothing
PushOut(tri, start) ==
    LET depth == playerRadius - TriDistance(tri, start)
        from  == IF tri.kind = "floor" THEN NearestEndY(tri, start) ELSE start.x
    IN  IF tri.kind = "floor"
        THEN IF from > tri.at THEN [start EXCEPT !.y = @ + depth]
             ELSE IF from < tri.at THEN [start EXCEPT !.y = @ - depth]
             ELSE start
        ELSE IF from > tri.at THEN [start EXCEPT !.x = @ + depth]
             ELSE IF from < tri.at THEN [start EXCEPT !.x = @ - depth]
             ELSE start

\* intersectsTriangle over the triangles of a leaf, in order: returning true
\* for a triangle ends the shapecast of this collider
RECURSIVE ShapecastTris(_, _, _)
ShapecastTris(tris, i, start) ==
    IF i > Len(tris) THEN start
    ELSE IF TriDistance(tris[i], start) < playerRadius
         THEN PushOut(tris[i], start)
         ELSE ShapecastTris(tris, i + 1, start)

Shapecast(tris, start) ==
    IF tris = <<>> \/ ~intersectsBounds(tris, start) THEN start
    ELSE ShapecastTris(tris, 1, start)

\* lines 226-260: every collider in list order, on the working segment
RECURSIVE ResolveColliders(_, _, _)
ResolveColliders(list, i, start) ==
    IF i > Len(list) THEN start
    ELSE ResolveColliders(list, i + 1, Shapecast(Objects[list[i].mesh].tris, start))

\* lines 267-274: the ground check on the resolved position
GroundCheckNoLanding(pos, vel, ground) ==
    IF pos.y < playerHeight + GroundMargin
    THEN [position |-> [pos EXCEPT !.y = playerHeight],
          velocity |-> IF vel < 0 THEN 0 ELSE vel,
          onGround |-> ground]
    ELSE [position |-> pos, velocity |-> vel, onGround |-> ground]

GroundCheckNoClamp(pos, vel, ground) ==
    IF pos.y < playerHeight + GroundMargin
    THEN [position |-> pos,
          velocity |-> IF vel < 0 THEN 0 ELSE vel,
          onGround |-> IF vel < 0 THEN TRUE ELSE ground]
    ELSE [position |-> pos, velocity |-> vel, onGround |-> ground]

GroundCheck(pos, vel, ground) ==
    IF pos.y < playerHeight + GroundMargin
    THEN [position |-> [pos EXCEPT !.y = playerHeight],
          velocity |-> IF vel < 0 THEN 0 ELSE vel,
          onGround |-> IF vel < 0 THEN TRUE ELSE ground]
    ELSE [position |-> pos, velocity |-> vel, onGround |-> ground]

checkCollisions(pos, vel, ground) ==
    GroundCheck(ResolveColliders(colliders, 1, pos), vel, ground)

\* a call of the method by the owner of the controller: the method has no
\* check of `enabled` and leaves the camera where it is
CollisionCheck ==
    LET r == checkCollisions(position, velocity, onGround)
    IN  /\ op' = "checkCollisions"
        /\ position' = r.position
        /\ velocity' = r.velocity
        /\ onGround' = r.onGround
        /\ UNCHANGED <<enabled, keys, colliders, cameraPosition, cameraYaw,
                       pointerLockElement, listening, sceneObjects, cloneCount,
                       clonesDisposed, castleVars, handVars>>

(***************************************************************************)
(* PlayerController.js: update                                             *)
(***************************************************************************)
\* a / b rounded towards zero, b > 0
DivTrunc(a, b) == IF a >= 0 THEN a \div b ELSE -((-a) \div b)

\* integer square root by Newton's iteration
RECURSIVE NewtonSqrt(_, _)
NewtonSqrt(n, x) ==
    LET y == (x + n \div x) \div 2
    IN  IF y >= x THEN x ELSE NewtonSqrt(n, y)

ISqrt(n) == IF n = 0 THEN 0 ELSE NewtonSqrt(n, n)

\* camera.getWorldDirection with the y component removed, in units of 1/U
FrontVector(yaw) == [x |-> -SinDeg(yaw), z |-> -CosDeg(yaw)]

\* crossVectors(camera.up, frontVector)
SideVector(yaw) == [x |-> FrontVector(yaw).z, z |-> -FrontVector(yaw).x]

Sign(b) == IF b THEN 1 ELSE 0

\* lines 284-306: the sum of the vectors of the held keys
Direction(k, yaw) ==
    LET f  == FrontVector(yaw)
        sd == SideVector(yaw)
        a  == Sign(k.forward) - Sign(k.backward)
        b  == Sign(k.left) - Sign(k.right)
    IN  [x |-> a * f.x + b * sd.x, z |-> a * f.z + b * sd.z]

\* direction.normalize()
NormalizedSkipped(d) == d

Normalized(d) ==
    LET len == ISqrt(d.x * d.x + d.z * d.z)
    IN  [x |-> DivTrunc(d.x * U, len), z |-> DivTrunc(d.z * U, len)]

\* lines 308-312: the horizontal displacement of one tick
Displacement(k, yaw, deltaTime) ==
    LET d    == Direction(k, yaw)
        step == (moveSpeed * deltaTime) \div 1000
    IN  IF d.x = 0 /\ d.z = 0 THEN [x |-> 0, z |-> 0]
        ELSE [x |-> DivTrunc(Normalized(d).x * step, U),
              z |-> DivTrunc(Normalized(d).z * step, U)]

\* line 278: a tick acts only while the controller is enabled
UpdateRunsAlways == TRUE

UpdateRuns == enabled

update(deltaTime) ==
    /\ op' = "update"
    /\ IF ~UpdateRuns
       THEN UNCHANGED <<position, velocity, onGround, cameraPosition>>
       ELSE LET v1    == velocity - (gravity * deltaTime) \div 1000
                d     == Displacement(keys, cameraYaw, deltaTime)
                moved == [x |-> position.x + d.x,
                          y |-> position.y + DivTrunc(v1 * deltaTime, 1000),
                          z |-> position.z + d.z]
                r     == checkCollisions(moved, v1, onGround)
            IN  /\ position' = r.position
                /\ velocity' = r.velocity
                /\ onGround' = r.onGround
                /\ cameraPosition' = r.position
    /\ UNCHANGED <<enabled, keys, colliders, cameraYaw, pointerLockElement,
                   listening, sceneObjects, cloneCount, clonesDisposed, castleVars, handVars>>

(***************************************************************************)
(* Bounds of the player model                                              *)
(***************************************************************************)
\* elapsed times of a tick, in milliseconds
Deltas == {100, 200}

\* the player stays within this distance of the start, on x and on z
RoomHalf == 2000

\* ticks are not taken beyond this downward speed
MaxFallSpeed == 60000

\* geometry clones made by one controller
MaxClones == 3

MaxSceneObjects == 2

\* the keys pressed and released in the movement model
PressedKeys == {"KeyW", "Space"}

\* scenes the movement model starts with
PlayerScenes == { <<"ground", "ledge", "pane">>, <<"stair", "beam">> }

InRoom(p) == Abs(p.x) <= RoomHalf /\ Abs(p.z - StartZ) <= RoomHalf

Tick(deltaTime) ==
    /\ update(deltaTime)
    /\ InRoom(position')
    /\ velocity' >= -MaxFallSpeed

(***************************************************************************)
(* Specifications                                                          *)
(***************************************************************************)
\* the castle generator, with an idle controller
InitCastle == CastleInit /\ PlayerInit

SpecCastle == InitCastle /\ [][CastleNext]_vars

\* the controller moving in a scene, before any castle is generated
InitPlayer ==
    /\ CastleInit
    /\ \E objs \in PlayerScenes :
          /\ sceneObjects = objs
          /\ position = [x |-> 0, y |-> playerHeight, z |-> StartZ]
          /\ velocity = 0
          /\ onGround = FALSE
          /\ enabled = FALSE
          /\ keys = NoKeys
          /\ colliders = <<>>
          /\ cameraPosition = [x |-> 0, y |-> playerHeight, z |-> StartZ]
          /\ cameraYaw = 0
          /\ pointerLockElement = "none"
          /\ listening = TRUE
          /\ cloneCount = 0
          /\ clonesDisposed = {}
          /\ op = "constructor"

PlayerNext ==
    \/ \E code \in PressedKeys : onKeyDown(code)
    \/ \E code \in PressedKeys : onKeyUp(code)
    \/ \E el \in {"none", "canvas", "other"} : PointerLockChange(el)
    \/ lock
    \/ unlock
    \/ \E dt \in Deltas : Tick(dt)
    \/ (buildCollisionFromScene /\ cloneCount' <= MaxClones)
    \/ dispose
    \/ setupEventListeners
    \/ CollisionCheck

SpecPlayer == InitPlayer /\ [][PlayerNext]_vars

\* the controller next to a mesh that has a wall and a step in one geometry
InitStair ==
    /\ CastleInit
    /\ sceneObjects = <<"stair">>
    /\ position = [x |-> 0, y |-> playerHeight, z |-> StartZ]
    /\ velocity = 0
    /\ onGround = FALSE
    /\ enabled = FALSE
    /\ keys = NoKeys
    /\ colliders = <<>>
    /\ cameraPosition = [x |-> 0, y |-> playerHeight, z |-> StartZ]
    /\ cameraYaw = 0
    /\ pointerLockElement = "none"
    /\ listening = TRUE
    /\ cloneCount = 0
    /\ clonesDisposed = {}
    /\ op = "constructor"

StairNext ==
    \/ \E code \in {"ArrowRight", "KeyA"} : onKeyDown(code)
    \/ \E code \in {"ArrowRight", "KeyA"} : onKeyUp(code)
    \/ \E el \in {"none", "canvas"} : PointerLockChange(el)
    \/ \E dt \in Deltas : Tick(dt)
    \/ (buildCollisionFromScene /\ cloneCount' <= MaxClones)
    \/ CollisionCheck

SpecStair == InitStair /\ [][StairNext]_vars

\* the collider list of a controller, built from a scene the caller edits
InitColliders == CastleInit /\ PlayerInit

\* the objects the caller puts into the scene or hands to addCollider: one
\* of each way an object can pass or fail the checks of the two operations
ColliderObjects ==
    { "ledge", "pane", "skylight", "pebble", "grain", "broken", "points", "bare",
      "unlit" }

AddedMeshes == { "ledge", "pane", "pebble", "broken", "bare" }

CollidersNext ==
    \/ \E n \in ColliderObjects : (Len(sceneObjects) < MaxSceneObjects /\ SceneAdd(n))
    \/ \E n \in ColliderObjects : SceneRemove(n)
    \/ \E n \in AddedMeshes : (addCollider(n) /\ cloneCount' <= MaxClones)
    \/ (buildCollisionFromScene /\ cloneCount' <= MaxClones)
    \/ dispose

SpecColliders == InitColliders /\ [][CollidersNext]_vars

\* a player released above the ground into an empty scene: the frame loop
\* keeps ticking while the pointer lock is held
StartHeights == {8500, 12000, 20000}

StartVelocities == {-9800, 0, 40000}

InitFall ==
    /\ CastleInit
    /\ \E h \in StartHeights, v \in StartVelocities :
          /\ position = [x |-> 0, y |-> h, z |-> StartZ]
          /\ cameraPosition = [x |-> 0, y |-> h, z |-> StartZ]
          /\ velocity = v
    /\ onGround = FALSE
    /\ enabled = TRUE
    /\ keys = NoKeys
    /\ colliders = <<>>
    /\ cameraYaw = 0
    /\ pointerLockElement = "canvas"
    /\ listening = TRUE
    /\ sceneObjects = <<>>
    /\ cloneCount = 0
    /\ clonesDisposed = {}
    /\ op = "constructor"

FrameTick == \E dt \in Deltas : update(dt)

FallNext ==
    \/ FrameTick
    \/ onKeyDown("Space")

SpecFall == InitFall /\ [][FallNext]_vars /\ WF_vars(FrameTick)

\* a player on the open ground with the pointer locked, some movement keys
\* held and the camera turned to some yaw by the mouse
Yaws == {15 * n : n \in 0..23}

KeyStates == [{"forward", "backward", "left", "right"} -> BOOLEAN]

\* the player stays within this distance of the start, on x and on z
MoveHalf == 6000

InitMove ==
    /\ CastleInit
    /\ position = [x |-> 0, y |-> playerHeight, z |-> StartZ]
    /\ cameraPosition = [x |-> 0, y |-> playerHeight, z |-> StartZ]
    /\ velocity = 0
    /\ onGround = FALSE
    /\ enabled = TRUE
    /\ keys \in KeyStates
    /\ colliders = <<>>
    /\ cameraYaw \in Yaws
    /\ pointerLockElement = "canvas"
    /\ listening = TRUE
    /\ sceneObjects = <<>>
    /\ cloneCount = 0
    /\ clonesDisposed = {}
    /\ op = "constructor"

MoveTick(deltaTime) ==
    /\ update(deltaTime)
    /\ Abs(position'.x) <= MoveHalf
    /\ Abs(position'.z - StartZ) <= MoveHalf

MoveNext == \E dt \in Deltas : MoveTick(dt)

SpecMove == InitMove /\ [][MoveNext]_vars

\* a SeededRandom constructed with a seed and asked for numbers: the seeds
\* at the lower end of what the seed control allows, the defaults, the upper
\* end of the control, and the ends of the range of the seed field
MaxDraws == 3

SeedInputs == (0..150) \cup {DefaultSeed, 99999, Modulus - 1, Modulus}

InitSeed ==
    /\ PlayerInit
    /\ castleGroup = 0
    /\ windowMeshes = <<>>
    /\ scene = 0
    /\ allTextureSets = <<>>
    /\ sceneChildren = [s \in Scenes |-> {}]
    /\ groupChildren = <<>>
    /\ geometries = [live |-> {}, disposed |-> {}]
    /\ prevGroup = 0
    /\ castleParams = defaultCastleParams
    /\ nextGroupId = 0
    /\ scenesUsed = {}
    /\ lastResult = NoResult
    /\ \E seed \in SeedInputs : rng = SeededRandom(seed)
    /\ HandInit

SeedNext == rng.draws < MaxDraws /\ next

SpecSeed == InitSeed /\ [][SeedNext]_vars

\* the generator over the texture sets a load can deliver: the aspect ratios
\* of the four images, in thousandths; 0 stands for a set without a usable
\* aspectRatio
AspectRatios == {0, 250, 999, 1000, 1001, 3000}

InitWindows ==
    /\ PlayerInit
    /\ castleGroup = 0
    /\ windowMeshes = <<>>
    /\ scene = 0
    /\ allTextureSets \in [1..numTextureSets -> AspectRatios]
    /\ sceneChildren = [s \in Scenes |-> {}]
    /\ groupChildren = <<>>
    /\ geometries = [live |-> {}, disposed |-> {}]
    /\ prevGroup = 0
    /\ castleParams = defaultCastleParams
    /\ nextGroupId = 0
    /\ scenesUsed = {}
    /\ lastResult = NoResult
    /\ rng = SeededRandom(DefaultSeed)
    /\ HandInit

WindowsNext == generateCastle(1, Mats(<<1, 2, 3, 4>>), castleParams)

SpecWindows == InitWindows /\ [][WindowsNext]_vars

\* the hand tracker with its frame loop
MaxPending == 3

MaxTime == 3

InitHand == CastleInit /\ PlayerInit

HandNext ==
    \/ \E result \in Detections : (HandStart(result) /\ pendingFrames' <= MaxPending)
    \/ HandStop
    \/ \E result \in Detections : AnimationFrame(result)
    \/ (ClockTick /\ clock' <= MaxTime)

SpecHand == InitHand /\ [][HandNext]_vars

\* the generator called with one set of params but the seed
\* seeds a caller can pass: the ends of the range of the seed control, the
\* default of the generator and those of the params above
LayoutSeeds == {0, 7, 42, DefaultSeed, 99999}

LayoutMaterials == { Mats(<<1, 2, 3, 4>>), Mats(<<3, 0, 1, 2>>) }

InitLayout == CastleInit /\ PlayerInit

LayoutNext ==
    \/ \E sets \in TextureSetLists : LoadAllTextureSets(sets)
    \/ \E s \in Scenes, seed \in LayoutSeeds, m \in LayoutMaterials :
          generateCastle(s, m, [castleParams EXCEPT !.seed = seed])

SpecLayout == InitLayout /\ [][LayoutNext]_vars

\* the generator driven by the parameter pane: the controls write the bound
\* castleParams, which every generation then uses
InitPane == CastleInit /\ PlayerInit

PaneNext ==
    \/ \E sets \in TextureSetLists : LoadAllTextureSets(sets)
    \/ \E s \in Scenes, m \in MaterialArgs : generateCastle(s, m, castleParams)
    \/ \E m \in MaterialArgs : regenerateCastle(m)
    \/ \E write \in ControlWrites, m \in PaneMaterials, registered \in BOOLEAN :
          SetCastleParams(write, m, registered)
    \/ \E seed \in RandomizedSeeds, m \in PaneMaterials, registered \in BOOLEAN :
          Randomize(seed, m, registered)

SpecPane == InitPane /\ [][PaneNext]_vars

(***************************************************************************)
(* Properties                                                              *)
(***************************************************************************)

\* C1: after one or more generateCastle calls that were all given the same
\* scene, exactly one castle group is attached to that scene: the group the
\* last call returned, which is also what getCastleGroup() returns.
OneLiveCastleGroup ==
    (castleGroup # 0 /\ scenesUsed = {scene}) =>
        /\ sceneChildren[scene] = {castleGroup}
        /\ lastResult.group = castleGroup

\* a second or third generation on one scene has replaced an attached group
OneLiveCastleGroupWitness ==
    /\ nextGroupId >= 2
    /\ prevGroup # 0
    /\ scenesUsed = {scene}
    /\ sceneChildren[scene] = {castleGroup}

\* C2: once generateCastle has replaced a group, no geometry of the replaced
\* group (stone, pillars, base, floor, frame bars, glass) is left undisposed.
PreviousGeometriesDisposed ==
    prevGroup # 0 => \A k \in geometries.live : k.g # prevGroup

\* C3: every step that takes the controller from enabled to disabled by
\* unlock() or by a pointerlockchange leaves no movement key held.
LockLossClearsKeys ==
    [][(enabled /\ ~enabled' /\ op' \in {"unlock", "pointerlockchange"})
          => keys' = NoKeys]_vars

\* C4: at the end of an enabled tick, a player whose resolved height is above
\* the ground threshold is not marked as on the ground.
RisenPlayerIsAirborne ==
    (op = "update" /\ enabled /\ position.y > playerHeight + GroundMargin)
        => ~onGround

\* C5: a key-down step leaves the position alone and changes velocity and
\* onGround only when it is the jump key, delivered to an attached listener
\* while enabled and on the ground; it then sets velocity.y to jumpSpeed and
\* onGround to false.
JumpOnlyWhenGrounded ==
    [][op' = "keydown" =>
          /\ position' = position
          /\ IF onKeyDown("Space") /\ listening /\ enabled /\ onGround
             THEN velocity' = jumpSpeed /\ onGround' = FALSE
             ELSE UNCHANGED <<velocity, onGround>>]_vars

\* a jump was just taken from the ground
JumpOnlyWhenGroundedWitness ==
    /\ op = "keydown"
    /\ enabled
    /\ velocity = jumpSpeed
    /\ ~onGround
    /\ position.y = playerHeight

AtRest == position.y = playerHeight /\ onGround /\ velocity = 0

\* C6: a player that is airborne above the ground height, in a scene without
\* colliders, comes to rest at playerHeight with onGround true and zero
\* vertical velocity, and every later tick leaves it at rest.
FallSettles ==
    /\ (~onGround /\ position.y > playerHeight) ~> AtRest
    /\ [][(AtRest /\ op' = "update") => AtRest']_vars

\* the player has landed after a fall
FallSettlesWitness == AtRest /\ op = "update" /\ enabled

\* C7: a tick of a disabled controller changes neither position, velocity,
\* onGround, the key flags nor the camera position, whatever the elapsed time.
DisabledUpdateIsNoOp ==
    [][(op' = "update" /\ ~enabled) =>
          UNCHANGED <<position, velocity, onGround, keys, cameraPosition>>]_vars

\* a tick reached a controller that lost the lock in mid-air with a key held
DisabledUpdateIsNoOpWitness ==
    /\ op = "update"
    /\ ~enabled
    /\ position.y > playerHeight
    /\ velocity # 0
    /\ keys.forward

Material(n) == Objects[n].material

IsTransparent(n) ==
    Material(n).present /\ (Material(n).transparent \/ Material(n).transmission # 0)

BelowMinSize(n) == Objects[n].size < MinColliderSize

ListedCount(n) == Cardinality({k \in 1..Len(colliders) : colliders[k].mesh = n})

\* C8: no entry of the collider list has a transparent or transmissive
\* material or a bounding-box diagonal below the minimum size.
CollidersExcludeGlassAndTiny ==
    \A k \in 1..Len(colliders) :
        ~IsTransparent(colliders[k].mesh) /\ ~BelowMinSize(colliders[k].mesh)

\* C9: right after buildCollisionFromScene the list holds no transparent,
\* transmissive or undersized mesh, and every other mesh of the scene that
\* has a geometry and whose BVH build succeeds is in the list exactly once.
BuildFiltersScene ==
    op = "buildCollisionFromScene" =>
        /\ \A k \in 1..Len(colliders) :
              ~IsTransparent(colliders[k].mesh) /\ ~BelowMinSize(colliders[k].mesh)
        /\ \A n \in Range(sceneObjects) :
              (/\ Objects[n].isMesh
               /\ Objects[n].geometry
               /\ Objects[n].bvhOk
               /\ ~IsTransparent(n)
               /\ ~BelowMinSize(n)) => ListedCount(n) = 1

\* a build over a scene that holds a filtered object next to a solid one
BuildFiltersSceneWitness ==
    /\ op = "buildCollisionFromScene"
    /\ \E n \in Range(sceneObjects) : IsTransparent(n) \/ BelowMinSize(n)
    /\ Len(colliders) = 1

\* C10: a buildCollisionFromScene step disposes the cloned geometry of every
\* collider that was in the list before it.
RebuildDisposesOldClones ==
    [][op' = "buildCollisionFromScene" =>
          \A k \in 1..Len(colliders) : colliders[k].geometry \in clonesDisposed']_vars

Solid(n) ==
    /\ Objects[n].isMesh
    /\ Objects[n].geometry
    /\ ~IsTransparent(n)
    /\ ~BelowMinSize(n)

\* C11: right after buildCollisionFromScene over a scene that holds a mesh
\* whose BVH build fails, that mesh is not in the collider list and the list
\* holds, in traversal order, exactly the other eligible meshes of the scene,
\* those before the failing mesh and those after it.
BvhFailureIsSkipped ==
    (op = "buildCollisionFromScene"
       /\ \E n \in Range(sceneObjects) : Solid(n) /\ ~Objects[n].bvhOk) =>
        /\ \A n \in Range(sceneObjects) : ~Objects[n].bvhOk => ListedCount(n) = 0
        /\ [k \in 1..Len(colliders) |-> colliders[k].mesh]
              = SelectSeq(sceneObjects, LAMBDA n : Solid(n) /\ Objects[n].bvhOk)

\* a build went past a failing mesh and added the mesh that follows it
BvhFailureIsSkippedWitness ==
    /\ op = "buildCollisionFromScene"
    /\ Len(sceneObjects) >= 2
    /\ ~Objects[sceneObjects[1]].bvhOk
    /\ Solid(sceneObjects[1])
    /\ Len(colliders) = 1
    /\ colliders[1].mesh = sceneObjects[2]

\* C12: a dispose() step detaches the listeners, disposes the cloned geometry
\* of every collider of the list, none of which was disposed before, and
\* empties the list; a dispose() that follows a dispose() changes nothing;
\* once the listeners are detached no key or pointerlockchange event changes
\* a field of the controller.
DisposeIsIdempotent ==
    [][/\ op' = "dispose" =>
             /\ ~listening'
             /\ colliders' = <<>>
             /\ \A k \in 1..Len(colliders) :
                   colliders[k].geometry \in clonesDisposed' \ clonesDisposed
       /\ (op = "dispose" /\ op' = "dispose") => UNCHANGED playerVars
       /\ (~listening /\ op' \in {"keydown", "keyup", "pointerlockchange"}) =>
             UNCHANGED <<position, velocity, onGround, enabled, keys, colliders,
                         cameraPosition, listening, cloneCount, clonesDisposed>>
      ]_vars

\* a controller with colliders was disposed while enabled with a key held
DisposeIsIdempotentWitness ==
    /\ op = "dispose"
    /\ ~listening
    /\ colliders = <<>>
    /\ clonesDisposed # {}
    /\ enabled
    /\ keys.forward

MaterialMissing(materials, i) ==
    materials.isNull \/ i >= Len(materials.arr) \/ materials.arr[i + 1] = 0

\* the children of the given type and slot in a list of children
ChildrenOf(children, type, slot) ==
    {k \in 1..Len(children) : children[k].type = type /\ children[k].slot = slot}

\* C13: a generateCastle step completes with the new group attached, and for
\* every window slot whose material is missing (array too short, or a null
\* entry, or no array) the group holds wall segment i and corner pillar i but
\* no glass mesh of slot i, and the window-mesh list holds no mesh of slot i.
MissingMaterialLeavesOpening ==
    [][\A s \in Scenes, m \in MaterialArgs, p \in ParamArgs :
          generateCastle(s, m, p) =>
             /\ castleGroup' \in sceneChildren'[s]
             /\ \A i \in 0..(lastResult'.windowCount - 1) :
                   MaterialMissing(m, i) =>
                      /\ Cardinality(ChildrenOf(groupChildren', "wall", i)) = 1
                      /\ Cardinality(ChildrenOf(groupChildren', "pillar", i)) = 1
                      /\ ChildrenOf(groupChildren', "glass", i) = {}
                      /\ \A k \in 1..Len(windowMeshes') : windowMeshes'[k].slot # i
      ]_vars

\* four windows were generated and one of them, not the last, has its wall
\* and pillar but no glass, while a later slot has glass
MissingMaterialLeavesOpeningWitness ==
    /\ castleGroup # 0
    /\ lastResult.windowCount = 4
    /\ \E i \in 0..2 :
          /\ ChildrenOf(groupChildren, "glass", i) = {}
          /\ ChildrenOf(groupChildren, "wall", i) # {}
          /\ ChildrenOf(groupChildren, "pillar", i) # {}
          /\ ChildrenOf(groupChildren, "glass", i + 1) # {}

\* the indices of the children of a type
ChildrenOfType(children, type) ==
    {k \in 1..Len(children) : children[k].type = type}

\* the unit vector of an angle that is a whole number of quarter turns
AxisDirection(deg) ==
    CASE deg % 360 = 0   -> [x |-> 1, z |-> 0]
      [] deg % 360 = 90  -> [x |-> 0, z |-> 1]
      [] deg % 360 = 180 -> [x |-> -1, z |-> 0]
      [] deg % 360 = 270 -> [x |-> 0, z |-> -1]

\* C14: a generateCastle step with window count N leaves exactly N wall
\* segments and N corner pillars in the new group, one of each per slot
\* 0..N-1; wall segment i is turned by i/N of a full turn (its yaw is a
\* quarter turn minus that angle), lies on the circle of radius
\* baseRadius * 1.2 at that angle, and differs from its successor by 1/N of
\* a turn.
EvenRing ==
    [][\A s \in Scenes, m \in MaterialArgs, p \in ParamArgs :
          generateCastle(s, m, p) =>
             LET N      == Min(numTextureSets, Len(allTextureSets))
                 radius == (p.baseRadius * 12) \div 10
                 wallAt(i) == CHOOSE k \in ChildrenOf(groupChildren', "wall", i) : TRUE
                 angle(i)  == 90 - groupChildren'[wallAt(i)].rotY
             IN  /\ lastResult'.windowCount = N
                 /\ Cardinality(ChildrenOfType(groupChildren', "wall")) = N
                 /\ Cardinality(ChildrenOfType(groupChildren', "pillar")) = N
                 /\ \A i \in 0..(N - 1) :
                       /\ Cardinality(ChildrenOf(groupChildren', "wall", i)) = 1
                       /\ Cardinality(ChildrenOf(groupChildren', "pillar", i)) = 1
                       /\ N * angle(i) = i * 360
                       /\ LET w == groupChildren'[wallAt(i)]
                          IN  /\ w.x * w.x + w.z * w.z = radius * radius
                              /\ angle(i) % 90 = 0 =>
                                    /\ w.x = AxisDirection(angle(i)).x * radius
                                    /\ w.z = AxisDirection(angle(i)).z * radius
                 /\ \A i \in 0..(N - 2) : N * (angle(i + 1) - angle(i)) = 360
      ]_vars

\* four wall segments on the wider ring, the second one a quarter turn on
EvenRingWitness ==
    /\ castleGroup # 0
    /\ lastResult.windowCount = 4
    /\ Cardinality(ChildrenOfType(groupChildren, "wall")) = 4
    /\ \E k \in ChildrenOf(groupChildren, "wall", 1) :
          /\ groupChildren[k].x = 0
          /\ groupChildren[k].z = 18000
          /\ groupChildren[k].rotY = 0

\* where the children of a group are and how they are turned
Placement(children) ==
    [k \in 1..Len(children) |->
        [type |-> children[k].type, slot |-> children[k].slot,
         x |-> children[k].x, y |-> children[k].y, z |-> children[k].z,
         rotY |-> children[k].rotY]]

\* C15: whatever was generated before, a generateCastle step places and
\* turns the wall segments, pillars and window meshes exactly as the first
\* generation of a fresh generator does for the same params (seed included),
\* materials and loaded texture sets.
SameInputsSameLayout ==
    [][\A s \in Scenes, m \in MaterialArgs, p \in ParamArgs :
          generateCastle(s, m, p) =>
             Placement(groupChildren')
                = Placement(BuildChildren(1, Min(numTextureSets, Len(allTextureSets)), m, p))
      ]_vars

\* a second generation, after a first one, stands where a first generation
\* with the default params and four materials stands
SameInputsSameLayoutWitness ==
    /\ castleGroup = 2
    /\ prevGroup = 1
    /\ lastResult.windowCount = 4
    /\ Placement(groupChildren)
          = Placement(BuildChildren(1, 4, Mats(<<1, 2, 3, 4>>), defaultCastleParams))

\* C16: every generated window glass is wider than high when the aspect
\* ratio of its texture set is above 1, higher than wide when it is between
\* 0 and 1, and square when it is 1 or missing.
WindowFollowsAspect ==
    \A k \in ChildrenOfType(groupChildren, "glass") :
        LET c == groupChildren[k]
            a == allTextureSets[c.slot + 1]
        IN  /\ a > 1000 => c.width > c.height
            /\ (0 < a /\ a < 1000) => c.height > c.width
            /\ a \in {0, 1000} => c.width = c.height

\* windows of a wide, a tall, a square and an unknown texture side by side
WindowFollowsAspectWitness ==
    /\ castleGroup # 0
    /\ \E i, j, k, l \in ChildrenOfType(groupChildren, "glass") :
          /\ allTextureSets[groupChildren[i].slot + 1] > 1000
          /\ groupChildren[i].width > groupChildren[i].height
          /\ allTextureSets[groupChildren[j].slot + 1] \in 1..999
          /\ groupChildren[j].height > groupChildren[j].width
          /\ allTextureSets[groupChildren[k].slot + 1] = 1000
          /\ allTextureSets[groupChildren[l].slot + 1] = 0
          /\ groupChildren[l].width = groupChildren[l].height

\* C17: a castle generated with a window count of 0 is attached to the scene
\* and holds no wall segment and no corner pillar, but one base slab and one
\* floor disk.
EmptyRingKeepsBaseAndFloor ==
    (castleGroup # 0 /\ lastResult.windowCount = 0) =>
        /\ lastResult.group = castleGroup
        /\ castleGroup \in sceneChildren[scene]
        /\ ChildrenOfType(groupChildren, "wall") = {}
        /\ ChildrenOfType(groupChildren, "pillar") = {}
        /\ Cardinality(ChildrenOfType(groupChildren, "base")) = 1
        /\ Cardinality(ChildrenOfType(groupChildren, "floor")) = 1

\* a castle was generated before any texture set was loaded
EmptyRingKeepsBaseAndFloorWitness ==
    /\ castleGroup # 0
    /\ allTextureSets = <<>>
    /\ lastResult.windowCount = 0
    /\ ChildrenOfType(groupChildren, "floor") # {}

\* C18: a generateCastle step with a non-empty materials array leaves a
\* window-mesh list that ends with the skylight, whose material is
\* materials[0], and holds before it, in ascending slot order and once each,
\* the glass of exactly the slots that have a material; with a material for
\* every slot its length is the window count plus one.
WindowListEndsWithSkylight ==
    [][\A s \in Scenes, m \in MaterialArgs, p \in ParamArgs :
          (generateCastle(s, m, p) /\ ~m.isNull /\ Len(m.arr) > 0) =>
             LET n == Len(windowMeshes')
                 N == lastResult'.windowCount
             IN  /\ n >= 1
                 /\ windowMeshes'[n].slot = -1
                 /\ windowMeshes'[n].geometry.kind = "skylight"
                 /\ windowMeshes'[n].material = m.arr[1]
                 /\ \A k \in 1..(n - 1) :
                       /\ windowMeshes'[k].slot \in 0..(N - 1)
                       /\ windowMeshes'[k].geometry.kind = "glass"
                       /\ windowMeshes'[k].material = m.arr[windowMeshes'[k].slot + 1]
                 /\ \A k \in 1..(n - 2) : windowMeshes'[k].slot < windowMeshes'[k + 1].slot
                 /\ {windowMeshes'[k].slot : k \in 1..(n - 1)}
                       = {i \in 0..(N - 1) : ~MaterialMissing(m, i)}
                 /\ (\A i \in 0..(N - 1) : ~MaterialMissing(m, i)) => n = N + 1
      ]_vars

\* four windows with glass and the skylight behind them, the skylight with
\* the material of window 0
WindowListEndsWithSkylightWitness ==
    /\ castleGroup # 0
    /\ lastResult.windowCount = 4
    /\ Len(windowMeshes) = 5
    /\ windowMeshes[5].slot = -1
    /\ windowMeshes[1].slot = 0
    /\ windowMeshes[5].material = windowMeshes[1].material
    /\ windowMeshes[5].group = castleGroup

\* what a truncation to the fixed-point unit can take from a length
RoundingSlack == 2

\* C19: in a tick of an enabled controller, for every set of held keys and
\* every yaw, the horizontal displacement is no longer than moveSpeed *
\* deltaTime; it has that length (up to the rounding of the unit) whenever
\* the held keys do not cancel, be it one key or two perpendicular keys, and
\* it is zero when they cancel.
MoveStepBounded ==
    [][\A dt \in Deltas :
          (update(dt) /\ enabled) =>
             LET dx   == position'.x - position.x
                 dz   == position'.z - position.z
                 step == (moveSpeed * dt) \div 1000
                 a    == Sign(keys.forward) - Sign(keys.backward)
                 b    == Sign(keys.left) - Sign(keys.right)
                 len2 == dx * dx + dz * dz
             IN  /\ len2 <= step * step
                 /\ (a # 0 \/ b # 0) =>
                       len2 >= (step - RoundingSlack) * (step - RoundingSlack)
                 /\ (a = 0 /\ b = 0) => (dx = 0 /\ dz = 0)
      ]_vars

\* a tick moved the player diagonally, forward and left of a turned camera
MoveStepBoundedWitness ==
    /\ op = "update"
    /\ enabled
    /\ keys.forward /\ keys.left /\ ~keys.backward /\ ~keys.right
    /\ cameraYaw = 30
    /\ position.x # 0
    /\ position.z # StartZ

\* C20: every number next() has returned is at least 0 and below 1, and the
\* seed field it left is within 1..2147483646.
RandomInUnitInterval ==
    rng.draws > 0 =>
        /\ rng.seed \in 1..(Modulus - 1)
        /\ 0 <= rng.value
        /\ rng.value < Modulus - 1

\* C21: an updateWindowMaterials(M) step on a generated castle, M holding one
\* material for each of its window slots, leaves the glass mesh of every
\* slot i with M[i] and the skylight with M[0], as a regeneration with M
\* would.
HotSwapMatchesRegeneration ==
    [][\A m \in MaterialArgs :
          (/\ updateWindowMaterials(m)
           /\ castleGroup # 0
           /\ ~m.isNull
           /\ lastResult.windowCount > 0
           /\ Len(m.arr) = lastResult.windowCount
           /\ \A i \in 1..Len(m.arr) : m.arr[i] # 0) =>
             \A k \in 1..Len(windowMeshes') :
                windowMeshes'[k].material =
                   IF windowMeshes'[k].slot = -1
                   THEN m.arr[1]
                   ELSE m.arr[windowMeshes'[k].slot + 1]
      ]_vars

\* the shapecast of the claim: every triangle of the collider is visited, in
\* order, each one seeing the segment as the ones before it corrected it
RECURSIVE RelaxAllTris(_, _, _)
RelaxAllTris(tris, i, start) ==
    IF i > Len(tris) THEN start
    ELSE RelaxAllTris(tris, i + 1,
            IF TriDistance(tris[i], start) < playerRadius
            THEN PushOut(tris[i], start)
            ELSE start)

RECURSIVE RelaxAllColliders(_, _, _)
RelaxAllColliders(list, i, start) ==
    IF i > Len(list) THEN start
    ELSE LET tris == Objects[list[i].mesh].tris
         IN  RelaxAllColliders(list, i + 1,
                IF tris = <<>> \/ ~intersectsBounds(tris, start) THEN start
                ELSE RelaxAllTris(tris, 1, start))

\* C22: an enabled tick ends where the player stands after every triangle of
\* every collider that is closer to the progressively corrected capsule
\* segment than the radius has pushed it out, the first penetrating
\* triangle of a collider not ending the pass over that collider.
EveryPenetratingTrianglePushes ==
    [][\A dt \in Deltas :
          (update(dt) /\ enabled) =>
             LET v1    == velocity - (gravity * dt) \div 1000
                 d     == Displacement(keys, cameraYaw, dt)
                 moved == [x |-> position.x + d.x,
                           y |-> position.y + DivTrunc(v1 * dt, 1000),
                           z |-> position.z + d.z]
                 relaxed == RelaxAllColliders(colliders, 1, moved)
             IN  /\ position'.x = relaxed.x
                 /\ position'.z = relaxed.z
                 /\ position'.y = IF relaxed.y < playerHeight + GroundMargin
                                  THEN playerHeight ELSE relaxed.y
      ]_vars

\* the width and height limits of a window, 0.7 and 0.8
MaxWindowWidth == 7000
MaxWindowHeight == 8000

\* C23: every generated window glass of a slot with a positive aspect ratio
\* a is at most 0.7 wide and at most 0.8 high, and its width is its height
\* times a, up to the rounding of the quotient to the unit.
WindowClampedKeepsAspect ==
    \A k \in ChildrenOfType(groupChildren, "glass") :
        LET c == groupChildren[k]
            a == allTextureSets[c.slot + 1]
        IN  a > 0 =>
              /\ c.width <= MaxWindowWidth
              /\ c.height <= MaxWindowHeight
              /\ IF a >= 1000
                 THEN c.height * a <= c.width * 1000 /\ c.width * 1000 < (c.height + 1) * a
                 ELSE c.width * 1000 <= c.height * a /\ c.height * a < (c.width + 1) * 1000

\* a window at the width limit next to a window at the height limit
WindowClampedKeepsAspectWitness ==
    /\ castleGroup # 0
    /\ \E i, j \in ChildrenOfType(groupChildren, "glass") :
          /\ allTextureSets[groupChildren[i].slot + 1] = 3000
          /\ groupChildren[i].width = MaxWindowWidth
          /\ groupChildren[i].height = 2333
          /\ allTextureSets[groupChildren[j].slot + 1] = 250
          /\ groupChildren[j].height = MaxWindowHeight
          /\ groupChildren[j].width = 2000

\* C24: the player is never below standing height.
NeverBelowStandingHeight == position.y >= playerHeight

\* a tick under gravity ended with the player set back to standing height
\* next to colliders, with a key held
NeverBelowStandingHeightWitness ==
    /\ op = "update"
    /\ enabled
    /\ position.y = playerHeight
    /\ velocity = 0
    /\ onGround
    /\ colliders # <<>>
    /\ keys.forward

\* C25: when two consecutive enabled ticks end at the same height, the
\* vertical velocity is 0 at the end of the second, wherever the player
\* stands.
SupportedPlayerHasNoVelocity ==
    [][(op = "update" /\ op' = "update" /\ enabled /\ position'.y = position.y)
          => velocity' = 0]_vars

\* C26: the controller is enabled only while the pointer lock is held by its
\* own element.
EnabledOnlyWhileLocked == enabled => pointerLockElement = "canvas"

\* what a group looks like: kind, slot, place, turn and size of each child
Layout(children) ==
    [k \in 1..Len(children) |->
        [type |-> children[k].type, slot |-> children[k].slot,
         x |-> children[k].x, y |-> children[k].y, z |-> children[k].z,
         rotY |-> children[k].rotY,
         width |-> children[k].width, height |-> children[k].height]]

\* C27: the layout a generateCastle call produces (number, kinds, places,
\* turns and sizes of the children) is the layout the same call produces
\* with any other params.seed.
SeedHasNoInfluence ==
    [][\A s \in Scenes, seed \in LayoutSeeds, m \in LayoutMaterials :
          generateCastle(s, m, [castleParams EXCEPT !.seed = seed]) =>
             \A other \in LayoutSeeds :
                Layout(groupChildren')
                   = Layout(BuildChildren(1, Min(numTextureSets, Len(allTextureSets)),
                                          m, [castleParams EXCEPT !.seed = other]))
      ]_vars

\* a castle of four windows generated with seed 7, after one generated with
\* another seed, has the layout of the same castle generated with seed 99999
SeedHasNoInfluenceWitness ==
    /\ castleGroup = 2
    /\ rng = SeededRandom(7)
    /\ lastResult.windowCount = 4
    /\ Cardinality(ChildrenOfType(groupChildren, "glass")) = 4
    /\ Layout(groupChildren)
          = Layout(BuildChildren(1, 4, Mats(<<1, 2, 3, 4>>),
                                 [defaultCastleParams EXCEPT !.seed = 99999]))

\* C28: every mesh in the window list belongs to the current castle group,
\* is one of its children and has a geometry that was not disposed.
WindowMeshesAreCurrent ==
    \A k \in 1..Len(windowMeshes) :
        /\ windowMeshes[k].group = castleGroup
        /\ \E c \in 1..Len(groupChildren) :
              windowMeshes[k].geometry \in groupChildren[c].geoms
        /\ windowMeshes[k].geometry \in geometries.live
        /\ windowMeshes[k].geometry \notin geometries.disposed

\* a second generation with windows, made with a wall height the pane
\* wrote, after a first one whose window geometries were disposed
WindowMeshesAreCurrentWitness ==
    /\ castleGroup = 2
    /\ prevGroup = 1
    /\ Len(windowMeshes) = 5
    /\ castleParams.wallHeight = 5000
    /\ \E key \in geometries.disposed : key.g = 1 /\ key.kind = "glass"

\* C29: across all scenes at most one castle group is attached.
OneGroupAcrossScenes ==
    Cardinality(UNION {sceneChildren[s] : s \in Scenes}) <= 1

\* C30: at most one _processFrame callback waits for an animation frame.
AtMostOnePendingFrame == pendingFrames <= 1

====
